---------------------------- MODULE Spec2Model ----------------------------
(***************************************************************************)
(* mdslice: the line-oriented block scanner parse_lines of                 *)
(* src/src/mdslice/parser.py, with the regular expressions of              *)
(* src/src/mdslice/constants.py.                                           *)
(*                                                                         *)
(* A string is a sequence of characters, each a one-character string (the  *)
(* backtick is the atom Backtick), so that strip, rstrip and the regular   *)
(* expressions are computed character by character.                        *)
(* Optional values are sequences of length at most one: None is << >>.     *)
(***************************************************************************)
EXTENDS Naturals, Sequences, FiniteSets, TLC

(***************************************************************************)
(* Bounds of the model.                                                    *)
(***************************************************************************)
\* the number of input lines one parse consumes
MaxLines == 3

(***************************************************************************)
(* Program constants.                                                      *)
(***************************************************************************)
\* _HEADER_RE: at most 6 '#'
HeaderMaxHashes == 6
\* _FENCE_OPEN_RE and _FENCE_CLOSE_RE: at least 3 fence characters
FenceMinRun == 3

None == << >>

(***************************************************************************)
(* Python string primitives.                                               *)
(***************************************************************************)
\* the characters str.strip() removes and the regex class \s matches
IsSpace(c) == c \in {" ", "\t", "\n", "\r"}

MinOf(S) == CHOOSE x \in S : \A y \in S : x <= y
MaxOf(S) == CHOOSE x \in S : \A y \in S : y <= x

\* s[n+1..]: the string without its first n characters
Drop(s, n) == SubSeq(s, n + 1, Len(s))

\* the length of the longest prefix of s made of characters of C
LeadRun(s, C) ==
    LET bad == {i \in 1..Len(s) : s[i] \notin C}
    IN  IF bad = {} THEN Len(s) ELSE MinOf(bad) - 1

\* the removal of one trailing newline, if there is one
RStripNL_Once(s) ==
    IF s # << >> /\ s[Len(s)] = "\n" THEN SubSeq(s, 1, Len(s) - 1) ELSE s

\* str.rstrip("\n"): every trailing newline is removed
RStripNL(s) ==
    LET keep == {i \in 1..Len(s) : s[i] # "\n"}
    IN  IF keep = {} THEN << >> ELSE SubSeq(s, 1, MaxOf(keep))

\* str.strip(): leading and trailing whitespace is removed
StrStrip(s) ==
    LET keep == {i \in 1..Len(s) : ~IsSpace(s[i])}
    IN  IF keep = {} THEN << >> ELSE SubSeq(s, MinOf(keep), MaxOf(keep))

\* "".join(buffer)
RECURSIVE Join(_)
Join(buffer) ==
    IF buffer = << >> THEN << >> ELSE Head(buffer) \o Join(Tail(buffer))

\* rest.split()[0] for a non-empty stripped rest: the first
\* whitespace-delimited token
FirstToken(rest) == SubSeq(rest, 1, LeadRun(rest, {c \in {rest[i] : i \in 1..Len(rest)} : ~IsSpace(c)}))

(***************************************************************************)
(* The regular expressions of constants.py, each applied with re.match to  *)
(* the stripped line.  A match is a sequence of its groups in an Optional: *)
(* << >> is no match.                                                      *)
(***************************************************************************)
\* the backtick character (a string literal cannot hold it)
Backtick == "BACKTICK"
FenceChars == {Backtick, "~"}

\* _FENCE_OPEN_RE: at least 3 characters of [`~], then anything up to the
\* end; groups (fence, rest)
FenceOpenMatch(stripped) ==
    LET run == LeadRun(stripped, FenceChars)
        rest == Drop(stripped, run)
    IN  IF run >= FenceMinRun /\ \A i \in 1..Len(rest) : rest[i] # "\n"
        THEN << <<SubSeq(stripped, 1, run), rest>> >>
        ELSE None

\* _FENCE_CLOSE_RE: at least 3 characters of [`~], then only whitespace up
\* to the end; group (fence)
FenceCloseMatch(stripped) ==
    LET run == LeadRun(stripped, FenceChars)
        rest == Drop(stripped, run)
    IN  IF run >= FenceMinRun /\ \A i \in 1..Len(rest) : IsSpace(rest[i])
        THEN << <<SubSeq(stripped, 1, run)>> >>
        ELSE None

\* _HEADER_RE with an unbounded run of '#'
HeaderMatch_NoCap(stripped) ==
    LET run == LeadRun(stripped, {"#"})
        after == Drop(stripped, run)
        content == Drop(after, LeadRun(after, {" ", "\t", "\n", "\r"}))
    IN  IF run >= 1 /\ \A i \in 1..Len(content) : content[i] # "\n"
        THEN << <<SubSeq(stripped, 1, run), content>> >>
        ELSE None

\* _HEADER_RE: 1 to 6 '#', then whitespace, then anything up to the end;
\* groups (hashes, content)
HeaderMatch(stripped) ==
    LET lead == LeadRun(stripped, {"#"})
        run == IF lead > HeaderMaxHashes THEN HeaderMaxHashes ELSE lead
        after == Drop(stripped, run)
        content == Drop(after, LeadRun(after, {" ", "\t", "\n", "\r"}))
    IN  IF run >= 1 /\ \A i \in 1..Len(content) : content[i] # "\n"
        THEN << <<SubSeq(stripped, 1, run), content>> >>
        ELSE None

\* _TABLE_RE: a '|', anything, a '|', then only whitespace up to the end
TableMatch(stripped) ==
    /\ Len(stripped) >= 2
    /\ stripped[1] = "|"
    /\ \E j \in 2..Len(stripped) :
          /\ stripped[j] = "|"
          /\ \A k \in 2..(j - 1) : stripped[k] # "\n"
          /\ \A k \in (j + 1)..Len(stripped) : IsSpace(stripped[k])

\* _IMAGE_RE: '![', characters other than ']', '](', characters other than
\* ')', then ')'
ImageMatch(stripped) ==
    /\ Len(stripped) >= 5
    /\ stripped[1] = "!"
    /\ stripped[2] = "["
    /\ LET alt == LeadRun(Drop(stripped, 2), {c \in {stripped[i] : i \in 1..Len(stripped)} : c # "]"})
           tail == Drop(stripped, 2 + alt)
       IN  /\ Len(tail) >= 3
           /\ tail[1] = "]"
           /\ tail[2] = "("
           /\ \E k \in 3..Len(tail) : tail[k] = ")"

\* _QUOTE_RE: a '>' (and an optional whitespace character)
QuoteMatch(stripped) == Len(stripped) >= 1 /\ stripped[1] = ">"

Digits == {"0", "1", "2", "3", "4", "5", "6", "7", "8", "9"}

\* a list pattern that asks for no whitespace after the marker
ListMatch_NoSpace(stripped) ==
    \/ /\ Len(stripped) >= 1
       /\ stripped[1] \in {"*", "+", "-"}
    \/ LET d == LeadRun(stripped, Digits)
       IN  /\ d >= 1
           /\ Len(stripped) >= d + 1
           /\ stripped[d + 1] = "."

\* _LIST_RE: one of '*', '+', '-', or digits and a '.', then whitespace
ListMatch(stripped) ==
    \/ /\ Len(stripped) >= 2
       /\ stripped[1] \in {"*", "+", "-"}
       /\ IsSpace(stripped[2])
    \/ LET d == LeadRun(stripped, Digits)
       IN  /\ d >= 1
           /\ Len(stripped) >= d + 2
           /\ stripped[d + 1] = "."
           /\ IsSpace(stripped[d + 2])

\* _SETEXT_H1_RE (at least 3 '=') and _SETEXT_H2_RE (at least 3 '-'), then
\* only whitespace up to the end; defined in constants.py, and parser.py
\* imports neither
SetextH1Match(stripped) ==
    LET run == LeadRun(stripped, {"="})
    IN  run >= 3 /\ \A i \in (run + 1)..Len(stripped) : IsSpace(stripped[i])

SetextH2Match(stripped) ==
    LET run == LeadRun(stripped, {"-"})
    IN  run >= 3 /\ \A i \in (run + 1)..Len(stripped) : IsSpace(stripped[i])

(***************************************************************************)
(* The input lines.  A line is what the line source yields: text with at   *)
(* most one newline, at its end.                                           *)
(***************************************************************************)
BT == Backtick

L_Blank    == <<"\n">>
L_Nbsp     == <<"&", "n", "b", "s", "p", "\n">>
L_NbspSemi == <<" ", "&", "n", "b", "s", "p", ";", "\n">>
L_Fence3   == <<BT, BT, BT, "\n">>
L_Fence4   == <<BT, BT, BT, BT, "\n">>
L_FencePy  == <<BT, BT, BT, "p", "y", " ", "x", "\n">>
L_Tilde3   == <<"~", "~", "~", "\n">>
L_Mixed    == <<BT, "~", "~", "\n">>
L_MixedJs  == <<"~", "~", "~", BT, "j", "s", "\n">>
L_H2       == <<"#", "#", " ", "T", " ", "\n">>
L_H7       == <<"#", "#", "#", "#", "#", "#", "#", "\n">>
L_HEmpty   == <<"#", "\n">>
L_Table    == <<"|", "a", "|", "\n">>
L_Image    == <<"!", "[", "a", "]", "(", "u", ")", "\n">>
L_Quote    == <<">", " ", "q", "\n">>
L_List     == <<"-", " ", "i", "\n">>
L_OList    == <<"1", ".", " ", "x", "\n">>
L_Text     == <<" ", "a", " ", "\n">>
L_NoNL     == <<"c">>
L_Eq       == <<"=", "=", "=", "\n">>
L_Dash     == <<"-", "-", "-", "\n">>

Lines ==
    { L_Blank, L_Nbsp, L_NbspSemi, L_Fence3, L_Fence4, L_FencePy, L_Tilde3,
      L_Mixed, L_MixedJs, L_H2, L_H7, L_HEmpty, L_Table, L_Image, L_Quote,
      L_List, L_OList, L_Text, L_NoNL, L_Eq, L_Dash }

(***************************************************************************)
(* The state of one call of parse_lines.                                   *)
(***************************************************************************)
VARIABLES
    sections,              \* List[ParsedSection], the result
    current_buffer,        \* List[str], the raw lines of the open block
    current_type,          \* SectionType of the open block, "NONE" when idle
    current_header_depth,  \* int
    in_code_block,         \* bool
    fence_char,            \* str: "" or the first character of the open fence
    fence_len,             \* int: the length of the opening fence run
    code_lang,             \* Optional[str]
    consumed,              \* the lines the for loop has taken from `lines`
    pc,                    \* "loop" inside the for loop, "done" after return
    runs                   \* the calls of parse_lines that run side by side

\* the call of parse_lines that the actions of Spec follow
call == <<sections, current_buffer, current_type, current_header_depth,
          in_code_block, fence_char, fence_len, code_lang, consumed, pc>>

vars == <<call, runs>>

\* ParsedSection(type, content, header_depth, meta), as parser.py builds it
ParsedSection(type, content, header_depth, meta) ==
    [type |-> type, content |-> content, header_depth |-> header_depth,
     meta |-> meta]

\* the accumulator: the local variables of parse_lines
Acc ==
    [sections |-> sections, current_buffer |-> current_buffer,
     current_type |-> current_type,
     current_header_depth |-> current_header_depth,
     in_code_block |-> in_code_block, fence_char |-> fence_char,
     fence_len |-> fence_len, code_lang |-> code_lang]

\* the locals as parse_lines initialises them
InitAcc ==
    [sections |-> << >>, current_buffer |-> << >>, current_type |-> "NONE",
     current_header_depth |-> 0, in_code_block |-> FALSE,
     fence_char |-> << >>, fence_len |-> 0, code_lang |-> None]

\* a flush that puts its section in the place of the sections made so far
Flush_Overwrite(buffer, secs, sec_type, header_depth, meta) ==
    IF buffer = << >>
    THEN [buffer |-> buffer, sections |-> secs]
    ELSE [buffer |-> << >>,
          sections |->
              <<ParsedSection(sec_type, RStripNL(Join(buffer)), header_depth, meta)>>]

\* _flush without its guard `if not buffer: return`
Flush_NoGuard(buffer, secs, sec_type, header_depth, meta) ==
    [buffer |-> << >>,
     sections |-> Append(secs,
         ParsedSection(sec_type, RStripNL(Join(buffer)), header_depth, meta))]

\* _flush(buffer, sections, sec_type, header_depth, meta): the buffer and
\* the sections after the call
Flush(buffer, secs, sec_type, header_depth, meta) ==
    IF buffer = << >>
    THEN [buffer |-> buffer, sections |-> secs]
    ELSE [buffer |-> << >>,
          sections |-> Append(secs,
              ParsedSection(sec_type, RStripNL(Join(buffer)), header_depth, meta))]

\* _flush(current_buffer, sections, current_type, current_header_depth)
FlushCurrent(s) ==
    LET f == Flush(s.current_buffer, s.sections, s.current_type,
                   s.current_header_depth, None)
    IN  [s EXCEPT !.current_buffer = f.buffer, !.sections = f.sections]

\* line = raw_line.rstrip("\n"); stripped = line.strip()
Stripped(raw_line) == StrStrip(RStripNL(raw_line))

\* the blank test that knows the empty line only
IsBlank_OnlyEmpty(stripped) == stripped = << >>

\* the blank test without its '&nbsp;' case
IsBlank_NoSemi(stripped) ==
    \/ stripped = << >>
    \/ stripped = <<"&", "n", "b", "s", "p">>

\* stripped == "" or stripped == "&nbsp" or stripped == "&nbsp;"
IsBlank(stripped) ==
    \/ stripped = << >>
    \/ stripped = <<"&", "n", "b", "s", "p">>
    \/ stripped = <<"&", "n", "b", "s", "p", ";">>

(***************************************************************************)
(* The body of the for loop, one operator per branch: the accumulator      *)
(* after the branch has handled raw_line.                                  *)
(***************************************************************************)
\* the close test of a line met inside a fence: m_close and fence_char and
\* m_close.group(1)[0] == fence_char and len(m_close.group(1)) >= fence_len
FenceCloses(stripped, fchar, flen) ==
    LET m_close == FenceCloseMatch(stripped)
    IN  /\ m_close # None
        /\ fchar # << >>
        /\ <<m_close[1][1][1]>> = fchar
        /\ Len(m_close[1][1]) >= flen

\* meta={"lang": code_lang} if code_lang else None
LangMeta(lang) ==
    IF lang # None /\ lang[1] # << >> THEN <<[lang |-> lang[1]]>> ELSE None

\* a closing line that leaves the recorded fence and language in place
OnCodeLine_NoReset(s, raw_line) ==
    LET buf == Append(s.current_buffer, raw_line)
    IN  IF FenceCloses(Stripped(raw_line), s.fence_char, s.fence_len)
        THEN LET f == Flush(buf, s.sections, "CODE", 0, LangMeta(s.code_lang))
             IN  [s EXCEPT !.current_buffer = f.buffer,
                           !.sections = f.sections,
                           !.in_code_block = FALSE,
                           !.current_type = "NONE"]
        ELSE [s EXCEPT !.current_buffer = buf]

\* if in_code_block: ... continue
OnCodeLine(s, raw_line) ==
    LET buf == Append(s.current_buffer, raw_line)
    IN  IF FenceCloses(Stripped(raw_line), s.fence_char, s.fence_len)
        THEN LET f == Flush(buf, s.sections, "CODE", 0, LangMeta(s.code_lang))
             IN  [s EXCEPT !.current_buffer = f.buffer,
                           !.sections = f.sections,
                           !.in_code_block = FALSE,
                           !.current_type = "NONE",
                           !.fence_char = << >>,
                           !.fence_len = 0,
                           !.code_lang = None]
        ELSE [s EXCEPT !.current_buffer = buf]

\* if current_type != SectionType.NONE: _flush(...)
FlushIfOpen(s) == IF s.current_type # "NONE" THEN FlushCurrent(s) ELSE s

\* a blank line that leaves the open block open
OnBlank_Ignore(s) == s

\* the blank line
OnBlank(s) ==
    IF s.current_type # "NONE"
    THEN [FlushCurrent(s) EXCEPT !.current_type = "NONE",
                                 !.current_header_depth = 0]
    ELSE s

\* code_lang = rest.split()[0] if rest else None
LangOf(rest) == IF rest # << >> THEN <<FirstToken(rest)>> ELSE None

\* an opening fence that starts its buffer afresh without flushing the
\* open block
OnFenceOpen_FreshBuffer(s, raw_line) ==
    LET m_open == FenceOpenMatch(Stripped(raw_line))[1]
        fence == m_open[1]
        rest == StrStrip(m_open[2])
    IN  [s EXCEPT !.code_lang = LangOf(rest),
                  !.in_code_block = TRUE,
                  !.current_type = "CODE",
                  !.current_header_depth = 0,
                  !.fence_char = <<fence[1]>>,
                  !.fence_len = Len(fence),
                  !.current_buffer = <<raw_line>>]

\* the opening fence
OnFenceOpen(s, raw_line) ==
    LET s1 == FlushIfOpen(s)
        m_open == FenceOpenMatch(Stripped(raw_line))[1]
        fence == m_open[1]
        rest == StrStrip(m_open[2])
    IN  [s1 EXCEPT !.code_lang = LangOf(rest),
                   !.in_code_block = TRUE,
                   !.current_type = "CODE",
                   !.current_header_depth = 0,
                   !.fence_char = <<fence[1]>>,
                   !.fence_len = Len(fence),
                   !.current_buffer = Append(s1.current_buffer, raw_line)]

\* a header that does not finalize the open block first
OnHeader_NoFlush(s, raw_line) ==
    LET m == HeaderMatch(Stripped(raw_line))[1]
    IN  [s EXCEPT !.sections = Append(s.sections,
                      ParsedSection("HEADER", StrStrip(m[2]), Len(m[1]), None)),
                  !.current_type = "NONE",
                  !.current_header_depth = 0]

\* the ATX header
OnHeader(s, raw_line) ==
    LET s1 == FlushIfOpen(s)
        m == HeaderMatch(Stripped(raw_line))[1]
        hashes == m[1]
        content == m[2]
        depth == Len(hashes)
    IN  [s1 EXCEPT !.sections = Append(s1.sections,
                       ParsedSection("HEADER", StrStrip(content), depth, None)),
                   !.current_type = "NONE",
                   !.current_header_depth = 0]

\* an image line buffered as a block of its own kind, so that consecutive
\* image lines merge
OnImage_Buffered(s, raw_line) ==
    LET s1 == IF s.current_type \notin {"NONE", "IMAGE"}
              THEN FlushCurrent(s) ELSE s
    IN  [s1 EXCEPT !.current_type = "IMAGE",
                   !.current_buffer = Append(s1.current_buffer, raw_line)]

\* the image
OnImage(s, raw_line) ==
    LET s1 == FlushIfOpen(s)
    IN  [s1 EXCEPT !.sections = Append(s1.sections,
                       ParsedSection("IMAGE", Stripped(raw_line), 0, None)),
                   !.current_type = "NONE"]

\* a bufferable line that flushes the open block even when it is of the
\* same kind
OnBufferable_AlwaysFlush(s, raw_line, kind) ==
    LET s1 == IF s.current_type # "NONE" THEN FlushCurrent(s) ELSE s
    IN  [s1 EXCEPT !.current_type = kind,
                   !.current_header_depth = 0,
                   !.current_buffer = Append(s1.current_buffer, raw_line)]

\* a table row, a quote line, a list item or paragraph text: the open
\* block is flushed unless it is of the same kind, and the line is buffered
OnBufferable(s, raw_line, kind) ==
    LET s1 == IF s.current_type \notin {"NONE", kind}
              THEN FlushCurrent(s) ELSE s
    IN  [s1 EXCEPT !.current_type = kind,
                   !.current_header_depth = 0,
                   !.current_buffer = Append(s1.current_buffer, raw_line)]

\* the tests of the loop body without the paragraph default at their end
Branch_NoFallback(s, raw_line) ==
    LET stripped == Stripped(raw_line)
    IN  IF s.in_code_block THEN "code"
        ELSE IF IsBlank(stripped) THEN "blank"
        ELSE IF FenceOpenMatch(stripped) # None THEN "fence_open"
        ELSE IF HeaderMatch(stripped) # None THEN "header"
        ELSE IF TableMatch(stripped) THEN "table"
        ELSE IF ImageMatch(stripped) THEN "image"
        ELSE IF QuoteMatch(stripped) THEN "quote"
        ELSE IF ListMatch(stripped) THEN "list"
        ELSE "unclassified"

\* the branch of the loop body that handles raw_line: the first test that
\* succeeds, in the order of the code
Branch(s, raw_line) ==
    LET stripped == Stripped(raw_line)
    IN  IF s.in_code_block THEN "code"
        ELSE IF IsBlank(stripped) THEN "blank"
        ELSE IF FenceOpenMatch(stripped) # None THEN "fence_open"
        ELSE IF HeaderMatch(stripped) # None THEN "header"
        ELSE IF TableMatch(stripped) THEN "table"
        ELSE IF ImageMatch(stripped) THEN "image"
        ELSE IF QuoteMatch(stripped) THEN "quote"
        ELSE IF ListMatch(stripped) THEN "list"
        ELSE "paragraph"

\* one iteration of the for loop
Step(s, raw_line) ==
    LET b == Branch(s, raw_line)
    IN  CASE b = "code" -> OnCodeLine(s, raw_line)
          [] b = "blank" -> OnBlank(s)
          [] b = "fence_open" -> OnFenceOpen(s, raw_line)
          [] b = "header" -> OnHeader(s, raw_line)
          [] b = "table" -> OnBufferable(s, raw_line, "TABLE")
          [] b = "image" -> OnImage(s, raw_line)
          [] b = "quote" -> OnBufferable(s, raw_line, "QUOTE")
          [] b = "list" -> OnBufferable(s, raw_line, "LIST")
          [] b = "paragraph" -> OnBufferable(s, raw_line, "PARAGRAPH")

\* the flush of the tail, after the loop
Tail_(s) == FlushIfOpen(s)

\* parse_lines(lines), as a function of the whole input
RECURSIVE Fold(_, _)
Fold(s, lines) ==
    IF lines = << >> THEN s ELSE Fold(Step(s, Head(lines)), Tail(lines))

ParseLines(lines) == Tail_(Fold(InitAcc, lines)).sections

(***************************************************************************)
(* The state machine: one action per branch of the loop body, and the      *)
(* flush of the tail.  The line source may end after any line.             *)
(***************************************************************************)
\* the calls that run side by side: their names, the lines they draw from
\* and the number of lines of one call
RunIds == {"a", "b"}

RunLines == {L_FencePy, L_Fence3, L_Text, L_Blank}

MaxRunLines == 2

\* a call whose locals keep the fence state the call before it has left
FreshAcc_StaleFence(old) ==
    [InitAcc EXCEPT !.in_code_block = old.in_code_block,
                    !.fence_char = old.fence_char,
                    !.fence_len = old.fence_len]

\* the locals of a call that follows a call which has left the locals old:
\* every local is bound anew, and nothing of old is read
FreshAcc(old) == InitAcc

\* a call of parse_lines: its locals, the lines it has taken, its position,
\* and whether an earlier call has returned before it
NewCall(acc, again) ==
    [acc |-> acc, consumed |-> << >>, pc |-> "loop", again |-> again]

\* the calls after call r has assigned n to its locals and taken raw_line,
\* were current_buffer one list that all the calls share
RunsAfter_SharedBuffer(rs, r, n, raw_line) ==
    [q \in RunIds |->
        IF q = r
        THEN [rs[q] EXCEPT !.acc = n, !.consumed = Append(@, raw_line)]
        ELSE [rs[q] EXCEPT !.acc.current_buffer = n.current_buffer]]

\* the calls after call r has assigned n to its locals and taken raw_line:
\* the locals of the other calls are not touched
RunsAfter(rs, r, n, raw_line) ==
    [rs EXCEPT ![r].acc = n, ![r].consumed = Append(@, raw_line)]

Init ==
    /\ sections = InitAcc.sections
    /\ current_buffer = InitAcc.current_buffer
    /\ current_type = InitAcc.current_type
    /\ current_header_depth = InitAcc.current_header_depth
    /\ in_code_block = InitAcc.in_code_block
    /\ fence_char = InitAcc.fence_char
    /\ fence_len = InitAcc.fence_len
    /\ code_lang = InitAcc.code_lang
    /\ consumed = << >>
    /\ pc = "loop"
    /\ runs = [r \in RunIds |-> NewCall(InitAcc, FALSE)]

SetAcc(n) ==
    /\ sections' = n.sections
    /\ current_buffer' = n.current_buffer
    /\ current_type' = n.current_type
    /\ current_header_depth' = n.current_header_depth
    /\ in_code_block' = n.in_code_block
    /\ fence_char' = n.fence_char
    /\ fence_len' = n.fence_len
    /\ code_lang' = n.code_lang

\* the line source (a file read line by line, or text.splitlines(keepends=
\* True)) yields lines that end with a newline, except possibly its last
EndsWithNL(raw_line) ==
    raw_line # << >> /\ raw_line[Len(raw_line)] = "\n"

\* the for loop takes raw_line, and the branch named b handles it
Take(raw_line, b, n) ==
    /\ pc = "loop"
    /\ Len(consumed) < MaxLines
    /\ consumed # << >> => EndsWithNL(consumed[Len(consumed)])
    /\ Branch(Acc, raw_line) = b
    /\ SetAcc(n)
    /\ consumed' = Append(consumed, raw_line)
    /\ pc' = pc
    /\ UNCHANGED runs

CodeLine == \E raw_line \in Lines :
    Take(raw_line, "code", OnCodeLine(Acc, raw_line))

BlankLine == \E raw_line \in Lines :
    Take(raw_line, "blank", OnBlank(Acc))

FenceOpenLine == \E raw_line \in Lines :
    Take(raw_line, "fence_open", OnFenceOpen(Acc, raw_line))

HeaderLine == \E raw_line \in Lines :
    Take(raw_line, "header", OnHeader(Acc, raw_line))

TableLine == \E raw_line \in Lines :
    Take(raw_line, "table", OnBufferable(Acc, raw_line, "TABLE"))

ImageLine == \E raw_line \in Lines :
    Take(raw_line, "image", OnImage(Acc, raw_line))

QuoteLine == \E raw_line \in Lines :
    Take(raw_line, "quote", OnBufferable(Acc, raw_line, "QUOTE"))

ListLine == \E raw_line \in Lines :
    Take(raw_line, "list", OnBufferable(Acc, raw_line, "LIST"))

ParagraphLine == \E raw_line \in Lines :
    Take(raw_line, "paragraph", OnBufferable(Acc, raw_line, "PARAGRAPH"))

\* the end of the input: the tail is flushed and parse_lines returns
FlushTail ==
    /\ pc = "loop"
    /\ SetAcc(Tail_(Acc))
    /\ pc' = "done"
    /\ UNCHANGED <<consumed, runs>>

Next ==
    \/ CodeLine
    \/ BlankLine
    \/ FenceOpenLine
    \/ HeaderLine
    \/ TableLine
    \/ ImageLine
    \/ QuoteLine
    \/ ListLine
    \/ ParagraphLine
    \/ FlushTail

Spec == Init /\ [][Next]_vars

(***************************************************************************)
(* The parse as the interpreter runs it, on inputs of one line of every    *)
(* kind: the for loop goes on while the line source yields lines, and the  *)
(* flush of the tail and the return follow when it has ended; no step      *)
(* waits for anything.                                                     *)
(***************************************************************************)
FairLines ==
    {L_Blank, L_FencePy, L_Fence3, L_H2, L_Table, L_Image, L_Quote, L_List,
     L_Text}

MaxFairLines == 2

\* one iteration of the for loop
TakeLine == \E raw_line \in FairLines :
    /\ pc = "loop"
    /\ Len(consumed) < MaxFairLines
    /\ SetAcc(Step(Acc, raw_line))
    /\ consumed' = Append(consumed, raw_line)
    /\ pc' = pc
    /\ UNCHANGED runs

NextFair ==
    \/ TakeLine
    \/ FlushTail

SpecFair == Init /\ [][NextFair]_vars /\ WF_vars(NextFair)

(***************************************************************************)
(* Calls of parse_lines side by side: each call steps through its own      *)
(* lines, the steps of the calls interleave in any order, and a call that  *)
(* has returned may be followed by another call.                           *)
(***************************************************************************)
\* one iteration of the for loop of one call
RunStep == \E r \in RunIds, raw_line \in RunLines :
    /\ runs[r].pc = "loop"
    /\ Len(runs[r].consumed) < MaxRunLines
    /\ runs' = RunsAfter(runs, r, Step(runs[r].acc, raw_line), raw_line)
    /\ UNCHANGED call

\* the flush of the tail and the return of one call
RunReturn == \E r \in RunIds :
    /\ runs[r].pc = "loop"
    /\ runs' = [runs EXCEPT ![r].acc = Tail_(@), ![r].pc = "done"]
    /\ UNCHANGED call

\* another call, after a call has returned
RunCall == \E r \in RunIds :
    /\ runs[r].pc = "done"
    /\ runs' = [runs EXCEPT ![r] = NewCall(FreshAcc(runs[r].acc), TRUE)]
    /\ UNCHANGED call

NextRuns ==
    \/ RunStep
    \/ RunReturn
    \/ RunCall

SpecRuns == Init /\ [][NextRuns]_vars

(***************************************************************************)
(* The document: from_text of main_functions.py hands the list that        *)
(* parse_lines has returned to MarkdownDocument of models.py, which keeps  *)
(* that very list; add_section appends to it.  In state "doc" the variable *)
(* sections is the list of the document.                                   *)
(***************************************************************************)
\* the number of lines of the parses a document is made of, and the number
\* of sections up to which add_section is called
MaxDocLines == 1

MaxDocSections == 3

\* the objects handed to add_section: two sections, and the dict of a
\* section, which is no ParsedSection
Objects ==
    {[class |-> "ParsedSection",
      value |-> ParsedSection("PARAGRAPH", <<"a">>, 0, None)],
     [class |-> "ParsedSection",
      value |-> ParsedSection("HEADER", <<"T">>, 1, None)],
     [class |-> "dict",
      value |-> ParsedSection("PARAGRAPH", <<"a">>, 0, None)]}

\* self.sections after add_section(section)
add_section(secs, section) ==
    IF section.class = "ParsedSection" THEN Append(secs, section.value)
    ELSE secs

\* return MarkdownDocument(sections=sections)
MakeDocument ==
    /\ pc = "done"
    /\ Len(consumed) <= MaxDocLines
    /\ pc' = "doc"
    /\ UNCHANGED <<sections, current_buffer, current_type,
                   current_header_depth, in_code_block, fence_char,
                   fence_len, code_lang, consumed, runs>>

\* document.add_section(section)
AddSection == \E section \in Objects :
    /\ pc = "doc"
    /\ Len(sections) < MaxDocSections
    /\ sections' = add_section(sections, section)
    /\ UNCHANGED <<current_buffer, current_type, current_header_depth,
                   in_code_block, fence_char, fence_len, code_lang,
                   consumed, pc, runs>>

NextDoc ==
    \/ Next
    \/ MakeDocument
    \/ AddSection

SpecDoc == Init /\ [][NextDoc]_vars

(***************************************************************************)
(* Vocabulary of the properties.                                           *)
(***************************************************************************)
SectionTypes ==
    {"NONE", "HEADER", "INFO", "PARAGRAPH", "LIST", "CODE", "TABLE", "IMAGE",
     "QUOTE"}

\* this step is an iteration of the for loop
Took == pc = "loop" /\ pc' = "loop" /\ Len(consumed') = Len(consumed) + 1

\* the line the iteration has taken
TakenLine == consumed'[Len(consumed')]

\* the section a flush of the open block makes
OpenBlockSection ==
    ParsedSection(current_type, RStripNL(Join(current_buffer)),
                  current_header_depth, None)

\* the sections after the open block, if any, has been finalized
SectionsAfterFinalize ==
    IF current_type # "NONE" THEN Append(sections, OpenBlockSection)
    ELSE sections

\* the kinds of a sequence of sections, in order
Kinds(secs) == [i \in 1..Len(secs) |-> secs[i].type]

(***************************************************************************)
(* C1.  No emitted section has empty content, except that a Header may     *)
(* have an empty title; and flushing an empty buffer emits nothing: a      *)
(* flush of the empty buffer, for any kind, leaves the sections as they    *)
(* are.                                                                    *)
(***************************************************************************)
NoEmptySection ==
    /\ \A i \in 1..Len(sections) :
          sections[i].content = << >> => sections[i].type = "HEADER"
    /\ \A t \in SectionTypes :
          Flush(<< >>, sections, t, 0, None) =
              [buffer |-> << >>, sections |-> sections]

\* a parse has returned a Header with an empty title beside a flushed block
NoEmptySectionWitness ==
    /\ pc = "done"
    /\ \E i \in 1..Len(sections) :
          sections[i].type = "HEADER" /\ sections[i].content = << >>
    /\ \E i \in 1..Len(sections) :
          sections[i].type = "PARAGRAPH" /\ sections[i].content # << >>

(***************************************************************************)
(* C2.  When a Setext underline (only '=' x3 or more, or only '-' x3 or    *)
(* more) arrives while a Paragraph block is open, the buffered paragraph   *)
(* is discarded, a single Header section is emitted (depth 1 for '=',      *)
(* depth 2 for '-') whose content is the trimmed buffered paragraph text,  *)
(* and the machine returns to Idle.                                        *)
(***************************************************************************)
SetextUnderlineMakesHeader ==
    [][ ( /\ Took
          /\ ~in_code_block
          /\ current_type = "PARAGRAPH"
          /\ \/ SetextH1Match(Stripped(TakenLine))
             \/ SetextH2Match(Stripped(TakenLine)) )
        => /\ sections' = Append(sections,
                 ParsedSection("HEADER", StrStrip(Join(current_buffer)),
                     IF SetextH1Match(Stripped(TakenLine)) THEN 1 ELSE 2,
                     None))
           /\ current_type' = "NONE"
           /\ current_buffer' = << >> ]_vars

(***************************************************************************)
(* Fences as the specification describes them: an opening line begins with *)
(* at least 3 identical fence characters, and a closing line is a run of   *)
(* the opener's character, at least as long, with nothing else on it.      *)
(***************************************************************************)
\* the length of the run of identical fence characters stripped begins with
IdenticalRun(stripped) ==
    IF stripped = << >> \/ stripped[1] \notin FenceChars THEN 0
    ELSE LeadRun(stripped, {stripped[1]})

\* stripped is solely a run of the character c, of length n at least
SolelyRunOf(stripped, c, n) ==
    /\ Len(stripped) >= n
    /\ Len(stripped) >= FenceMinRun
    /\ \A i \in 1..Len(stripped) : stripped[i] = c

\* the open fence was opened by a run of identical characters
OpenerIsIdenticalRun ==
    /\ in_code_block
    /\ current_buffer # << >>
    /\ IdenticalRun(Stripped(current_buffer[1])) = fence_len
    /\ fence_char = <<Stripped(current_buffer[1])[1]>>

(***************************************************************************)
(* C3.  Inside a fence (opened by a run of identical characters), a line   *)
(* closes the fence if and only if it consists solely of a run of the      *)
(* opener's character, of length at least the opening run length; any      *)
(* other line is kept as content of the block and emits nothing.           *)
(***************************************************************************)
FenceClosesIffSameRun ==
    [][ (Took /\ OpenerIsIdenticalRun)
        => IF SolelyRunOf(Stripped(TakenLine), fence_char[1], fence_len)
           THEN /\ ~in_code_block'
                /\ Len(sections') = Len(sections) + 1
           ELSE /\ in_code_block'
                /\ current_buffer' = Append(current_buffer, TakenLine)
                /\ sections' = sections ]_vars

\* the first input line opens a fence with a run of identical characters
FirstLineOpens ==
    /\ consumed # << >>
    /\ IdenticalRun(Stripped(consumed[1])) >= FenceMinRun

\* line k is the first line after the opener that is solely a run of the
\* opener's character, as long as the opening run at least
FirstCloseAt(k) ==
    LET opener == Stripped(consumed[1])
        closes(j) == SolelyRunOf(Stripped(consumed[j]), opener[1],
                                 IdenticalRun(opener))
    IN  /\ k \in 2..Len(consumed)
        /\ closes(k)
        /\ \A j \in 2..(k - 1) : ~closes(j)

(***************************************************************************)
(* C4.  For a fenced block opened (here by the first input line) with N    *)
(* fence characters of one family and closed with at least N of the same   *)
(* family, exactly one Code section is produced for it: its content runs   *)
(* from the opening fence line to the closing fence line, with every line  *)
(* in between in input order.                                              *)
(***************************************************************************)
FenceRoundTrip ==
    FirstLineOpens =>
        \A k \in 2..Len(consumed) :
            FirstCloseAt(k) =>
                /\ Len(sections) >= 1
                /\ sections[1].type = "CODE"
                /\ sections[1].content = RStripNL(Join(SubSeq(consumed, 1, k)))
                /\ \A i \in 2..Len(sections) :
                      sections[i].type = "CODE" => Len(consumed) > k

\* the first line of a content, without its newline
FirstLineOf(content) ==
    SubSeq(content, 1, LeadRun(content, {content[i] : i \in 1..Len(content)} \ {"\n"}))

\* the language of an opening line: the first token of what follows its
\* run of identical fence characters
LanguageOf(stripped) ==
    LET info == StrStrip(Drop(stripped, IdenticalRun(stripped)))
    IN  IF info = << >> THEN None ELSE <<[lang |-> FirstToken(info)]>>

(***************************************************************************)
(* C5.  For a fence closed by a matching close line, the Code section's    *)
(* metadata holds the language, the first whitespace-delimited token after *)
(* the opening fence run, and is absent when the opening line has no       *)
(* info-string; the language a Code section carries is that of its own     *)
(* opening line, never that of an earlier block.                           *)
(***************************************************************************)
CodeLanguageIsFirstToken ==
    /\ FirstLineOpens =>
          \A k \in 2..Len(consumed) :
              FirstCloseAt(k) =>
                  /\ Len(sections) >= 1
                  /\ sections[1].type = "CODE"
                  /\ sections[1].meta = LanguageOf(Stripped(consumed[1]))
    /\ \A i \in 1..Len(sections) :
          (sections[i].type = "CODE" /\ sections[i].meta # None) =>
              sections[i].meta = LanguageOf(StrStrip(FirstLineOf(sections[i].content)))

(***************************************************************************)
(* The input seen as runs of lines.  The role of a line is how the loop    *)
(* handles it: "code" inside a fence, else its classification.  A section  *)
(* starts at every line that is neither blank nor inside a fence and that  *)
(* does not continue the run of the line before it.                        *)
(***************************************************************************)
Bufferable == {"table", "quote", "list", "paragraph"}

TypeOfRole(r) ==
    CASE r = "table" -> "TABLE"
      [] r = "quote" -> "QUOTE"
      [] r = "list" -> "LIST"
      [] r = "paragraph" -> "PARAGRAPH"
      [] r = "header" -> "HEADER"
      [] r = "image" -> "IMAGE"
      [] r = "fence_open" -> "CODE"
      [] OTHER -> "NONE"

\* the roles of the lines of an input, in order, from accumulator s on
RECURSIVE RolesFrom(_, _)
RolesFrom(s, lines) ==
    IF lines = << >> THEN << >>
    ELSE <<Branch(s, Head(lines))>> \o RolesFrom(Step(s, Head(lines)), Tail(lines))

Roles(lines) == RolesFrom(InitAcc, lines)

\* the lines at which a section starts, given the roles of the lines
StartsOf(roles) ==
    {i \in 1..Len(roles) :
        /\ roles[i] \notin {"blank", "code"}
        /\ \/ i = 1
           \/ roles[i] \notin Bufferable
           \/ roles[i - 1] # roles[i]}

\* the k-th line, in input order, at which a section starts
NthStart(starts, k) ==
    CHOOSE i \in starts : Cardinality({j \in starts : j < i}) = k - 1

\* the last line of the run of same-kind lines that starts at line i
RunEnd(roles, i) ==
    MaxOf({e \in i..Len(roles) : \A j \in i..e : roles[j] = roles[i]})

BlankBetweenSameKind(roles, i) ==
    /\ i \in 2..(Len(roles) - 1)
    /\ roles[i] = "blank"
    /\ roles[i - 1] \in Bufferable
    /\ roles[i + 1] = roles[i - 1]

\* the index of the section that line i of the input belongs to
SectionOf(roles, i) == Cardinality({j \in StartsOf(roles) : j <= i})

\* the string t begins with the string p
IsPrefixOf(p, t) == Len(p) <= Len(t) /\ SubSeq(t, 1, Len(p)) = p

\* at return, the line after such a blank line begins a section of its own,
\* of the kind of the section before it
SeparatedRunsStaySeparate ==
    pc = "done" =>
        \A i \in 1..Len(consumed) :
            BlankBetweenSameKind(Roles(consumed), i) =>
                LET k == SectionOf(Roles(consumed), i + 1)
                IN  /\ k >= 2
                    /\ Len(sections) >= k
                    /\ sections[k].type = TypeOfRole(Roles(consumed)[i + 1])
                    /\ sections[k - 1].type = sections[k].type
                    /\ IsPrefixOf(RStripNL(consumed[i + 1]), sections[k].content)

BlankLines == {L_Blank, L_Nbsp, L_NbspSemi}

\* lines with b inserted after its first n lines
InsertAfter(lines, n, b) ==
    SubSeq(lines, 1, n) \o <<b>> \o SubSeq(lines, n + 1, Len(lines))

(***************************************************************************)
(* C8.  Inserting one more blank line next to a blank line of the input    *)
(* (before it or after it) changes neither the number of the resulting     *)
(* sections nor their kinds nor their order: the parse of the input with   *)
(* the line inserted has the kinds of the sections the parse has returned. *)
(***************************************************************************)
BlankLineIdempotence ==
    pc = "done" =>
        \A p \in 1..Len(consumed) :
            consumed[p] \in BlankLines =>
                \A b \in BlankLines :
                    /\ Kinds(ParseLines(InsertAfter(consumed, p, b)))
                           = Kinds(sections)
                    /\ Kinds(ParseLines(InsertAfter(consumed, p - 1, b)))
                           = Kinds(sections)

\* two blocks separated by a blank line, parsed to two sections, and to
\* two sections again with a second blank line between them
BlankLineIdempotenceWitness ==
    /\ pc = "done"
    /\ Len(consumed) = 3
    /\ consumed[2] \in BlankLines
    /\ Kinds(sections) = <<"LIST", "LIST">>
    /\ Kinds(ParseLines(InsertAfter(consumed, 2, L_NbspSemi))) = <<"LIST", "LIST">>

(***************************************************************************)
(* ATX header lines, read off the line itself.                             *)
(***************************************************************************)
\* the stripped line begins with '#'
IsAtx(stripped) == stripped # << >> /\ stripped[1] = "#"

\* the number of leading '#' of the line
HashCount(stripped) ==
    Cardinality({i \in 1..Len(stripped) : \A j \in 1..i : stripped[j] = "#"})

\* the leading '#' count as captured: 6 at most
CapturedDepth(stripped) ==
    IF HashCount(stripped) > HeaderMaxHashes THEN HeaderMaxHashes
    ELSE HashCount(stripped)

\* the trimmed remainder of the line after the captured marker
TrimmedRemainder(stripped) == StrStrip(Drop(stripped, CapturedDepth(stripped)))

Returned == pc = "loop" /\ pc' = "done"

\* the line that has opened the fence the parse is in
OpenerIndex ==
    CHOOSE i \in 1..Len(consumed) :
        /\ Roles(consumed)[i] = "fence_open"
        /\ \A j \in (i + 1)..Len(consumed) : Roles(consumed)[j] = "code"

(***************************************************************************)
(* C13.  When the input ends inside an unterminated fence (opened by a run  *)
(* of identical characters), the return emits exactly one more section: a  *)
(* Code section that holds every line                                      *)
(* from the opening fence to the last input line, with the kind, the depth *)
(* and the metadata of the open block, so that the language recorded at    *)
(* the opening is attached when one was given.                             *)
(***************************************************************************)
UnterminatedFenceKeepsLanguage ==
    [][ (Returned /\ in_code_block /\ OpenerIsIdenticalRun)
        => /\ Len(sections') = Len(sections) + 1
           /\ SubSeq(sections', 1, Len(sections)) = sections
           /\ LET sec == sections'[Len(sections')]
                  block == SubSeq(consumed, OpenerIndex, Len(consumed))
              IN  /\ sec.type = "CODE"
                  /\ sec.header_depth = current_header_depth
                  /\ IsPrefixOf(RStripNL(Join(block)), sec.content)
                  /\ IsPrefixOf(sec.content, Join(block))
                  /\ sec.meta = LangMeta(code_lang) ]_vars

(***************************************************************************)
(* C14.  The parse of the empty input returns the empty sequence, and the  *)
(* parse of an input that holds blank lines only (empty, whitespace,       *)
(* '&nbsp' or '&nbsp;') returns no section.                                *)
(***************************************************************************)
BlankInputNoSection ==
    /\ ParseLines(<< >>) = << >>
    /\ ( /\ pc = "done"
         /\ \A i \in 1..Len(consumed) : consumed[i] \in BlankLines )
       => sections = << >>

\* the parse of three blank lines of two different forms has returned
\* nothing
BlankInputNoSectionWitness ==
    /\ pc = "done"
    /\ Len(consumed) >= 3
    /\ \A i \in 1..Len(consumed) : consumed[i] \in BlankLines
    /\ consumed[1] = L_Blank
    /\ consumed[2] = L_NbspSemi
    /\ sections = << >>

(***************************************************************************)
(* C15.  Calls of parse_lines whose line steps interleave do not interfere *)
(* with one another: at every point each call holds the accumulator it     *)
(* holds when it runs alone on the lines it has taken, and each call that  *)
(* has returned has returned the sections of the parse of its own lines.   *)
(***************************************************************************)
InterleavedCallsIndependent ==
    \A r \in RunIds :
        IF runs[r].pc = "loop"
        THEN runs[r].acc = Fold(InitAcc, runs[r].consumed)
        ELSE runs[r].acc.sections = ParseLines(runs[r].consumed)

\* two calls are both in their loops, one inside a fence and one with an
\* open paragraph, each with the accumulator of its own lines
InterleavedCallsIndependentWitness ==
    /\ runs["a"].pc = "loop"
    /\ runs["b"].pc = "loop"
    /\ runs["a"].consumed = <<L_FencePy, L_Text>>
    /\ runs["b"].consumed = <<L_Text, L_Text>>
    /\ runs["a"].acc.in_code_block
    /\ runs["a"].acc.current_buffer = <<L_FencePy, L_Text>>
    /\ runs["b"].acc.current_type = "PARAGRAPH"
    /\ runs["b"].acc.current_buffer = <<L_Text, L_Text>>

(***************************************************************************)
(* C16.  Inside a fence (opened by a run of identical characters) no other *)
(* rule is evaluated: every line that is not the matching close line, be   *)
(* it blank, a header, an image, a list, quote or table line or a fence    *)
(* line with an info-string, is appended verbatim to the code buffer,      *)
(* emits no section, and leaves the fence and its recorded character, run  *)
(* length and language as they are.                                        *)
(***************************************************************************)
InFenceEverythingIsContent ==
    [][ ( /\ Took
          /\ OpenerIsIdenticalRun
          /\ ~SolelyRunOf(Stripped(TakenLine), fence_char[1], fence_len) )
        => /\ current_buffer' = Append(current_buffer, TakenLine)
           /\ sections' = sections
           /\ in_code_block'
           /\ current_type' = "CODE"
           /\ fence_char' = fence_char
           /\ fence_len' = fence_len
           /\ code_lang' = code_lang ]_vars

(***************************************************************************)
(* The flush of a buffer, seen from a step.                                *)
(***************************************************************************)
\* the buffer the step hands to _flush: inside a fence the line is appended
\* before the flush
FlushedBuffer ==
    IF Took /\ in_code_block THEN Append(current_buffer, TakenLine)
    ELSE current_buffer

\* the step has flushed a buffer that was not empty
Flushed ==
    /\ Len(sections') > Len(sections)
    /\ FlushedBuffer # << >>
    /\ in_code_block => (Returned \/ ~in_code_block')

\* the section the flush of the step has made
FlushedSection == sections'[Len(sections) + 1]

\* s without its trailing newlines, one after the other
RECURSIVE WithoutTrailingNewlines(_)
WithoutTrailingNewlines(s) ==
    IF s # << >> /\ s[Len(s)] = "\n"
    THEN WithoutTrailingNewlines(SubSeq(s, 1, Len(s) - 1))
    ELSE s

FenceOpensOnIdenticalRun ==
    [][ (Took /\ ~in_code_block)
        => LET stripped == Stripped(TakenLine)
           IN  /\ in_code_block' <=> IdenticalRun(stripped) >= FenceMinRun
               /\ in_code_block' =>
                     /\ fence_char' = <<stripped[1]>>
                     /\ fence_len' = IdenticalRun(stripped)
                     /\ LangMeta(code_lang') = LanguageOf(stripped) ]_vars

SectionsAppendOnly ==
    [][ IsPrefixOf(sections, sections') ]_vars

\* a document made of the parse of one text line, with two sections added
\* after the Paragraph of the parse
SectionsAppendOnlyWitness ==
    /\ pc = "doc"
    /\ Len(consumed) = 1
    /\ Len(sections) = 3
    /\ <<sections[1]>> = ParseLines(consumed)
    /\ Kinds(sections) = <<"PARAGRAPH", "HEADER", "PARAGRAPH">>

(***************************************************************************)
(* The steps of a parse.                                                   *)
(***************************************************************************)
\* the branches of the loop body
BranchNames ==
    {"code", "blank", "fence_open", "header", "table", "image", "quote",
     "list", "paragraph"}

\* in the loop, every line is handled by exactly one branch
EveryLineHasOneBranch ==
    pc = "loop" =>
        \A raw_line \in Lines :
            Cardinality({b \in BranchNames : Branch(Acc, raw_line) = b}) = 1

\* a step of the loop takes one line, after the lines taken before it, and
\* the return takes none; after the return nothing is taken or emitted
ConsumesOnce ==
    /\ pc = "loop" =>
          \/ /\ pc' = "loop"
             /\ \E raw_line \in Lines : consumed' = Append(consumed, raw_line)
          \/ /\ pc' = "done"
             /\ consumed' = consumed
    /\ pc = "done" => UNCHANGED <<sections, consumed, pc>>

\* the parse has returned: the tail is flushed and the sections are those
\* of the lines taken
ReturnedComplete ==
    pc = "done" =>
        /\ current_buffer = << >>
        /\ sections = ParseLines(consumed)

LastOf(roles, i) ==
    IF roles[i] \in Bufferable THEN RunEnd(roles, i)
    ELSE IF roles[i] = "fence_open"
         THEN MaxOf({e \in i..Len(roles) :
                        \A j \in (i + 1)..e : roles[j] = "code"})
    ELSE i

\* the starts of the sections that cover line n
CoveredBy(roles, n) ==
    {i \in StartsOf(roles) : i <= n /\ n <= LastOf(roles, i)}

AccumulatorConsistent ==
    pc = "loop" =>
        /\ current_buffer = << >> <=> current_type = "NONE"
        /\ in_code_block <=> current_type = "CODE"
        /\ in_code_block <=>
              ( /\ fence_char # << >>
                /\ fence_char[1] \in FenceChars
                /\ fence_len >= FenceMinRun )
        /\ ~in_code_block =>
              /\ fence_char = << >>
              /\ fence_len = 0
              /\ code_lang = None
        /\ current_header_depth = 0
        /\ current_type = "NONE" =>
              [Acc EXCEPT !.sections = << >>] = InitAcc

\* a fence with a language has been opened and closed: a Code section with
\* its language is emitted and every local is back to its initial value
AccumulatorConsistentWitness ==
    /\ pc = "loop"
    /\ Len(consumed) = 2
    /\ Roles(consumed) = <<"fence_open", "code">>
    /\ Kinds(sections) = <<"CODE">>
    /\ sections[1].meta # None
    /\ [Acc EXCEPT !.sections = << >>] = InitAcc

=============================================================================
